---- MODULE Spec2Model ----
(***************************************************************************)
(* Model of research/deeplab/datasets/regression_dataset_mP.py: the        *)
(* dataset registry _DATASETS_INFORMATION and the resolver get_dataset.    *)
(*                                                                         *)
(* Conventions.  Python dicts are TLA+ functions, lists are sequences.     *)
(* Path strings (dataset_dir, the file pattern) are sequences of one-      *)
(* character strings so that formatting and os.path.join act on            *)
(* characters.  Floats of pose_range are held in tenths (1.1 -> 11).       *)
(* A call outcome is a record: kind "returned" with a handle, or kind      *)
(* "raised" with the ValueError message.                                   *)
(***************************************************************************)
EXTENDS Integers, Sequences, FiniteSets, TLC

VARIABLES datasets_information, call, outcome, earlier

vars == <<datasets_information, call, outcome, earlier>>

(***************************** bounds *************************************)

\* Longest dataset_dir tried, in characters.
MaxDirLen == 1

(***************************** helpers ************************************)

\* Python's  [x] * n
Repeat(x, n) == [i \in 1..n |-> x]

\* Characters of the names that get substituted into the file pattern.
Chars(name) ==
  CASE name = "train"    -> <<"t", "r", "a", "i", "n">>
    [] name = "val"      -> <<"v", "a", "l">>
    [] name = "test"     -> <<"t", "e", "s", "t">>
    [] name = "trainval" -> <<"t", "r", "a", "i", "n", "v", "a", "l">>

\* Python's  pattern % arg  for a pattern with one %s conversion.
RECURSIVE Format(_, _)
Format(pattern, arg) ==
  IF pattern = <<>> THEN <<>>
  ELSE IF Len(pattern) >= 2 /\ pattern[1] = "%" /\ pattern[2] = "s"
       THEN arg \o SubSeq(pattern, 3, Len(pattern))
       ELSE <<pattern[1]>> \o Format(Tail(pattern), arg)

\* os.path.join(a, b) as the plain always-insert-a-separator variant.
PathJoinAlwaysSep(a, b) == a \o <<"/">> \o b

\* os.path.join(a, b) (posixpath): an absolute b replaces a; a separator is
\* inserted only when a is non-empty and does not already end in one.
PathJoin(a, b) ==
  IF b # <<>> /\ b[1] = "/" THEN b
  ELSE IF a = <<>> \/ a[Len(a)] = "/" THEN a \o b
  ELSE a \o <<"/">> \o b

(************************* module-level literals **************************)

ITEMS_TO_DESCRIPTIONS ==
  [image        |-> "A color image of varying height and width.",
   labels_class |-> "A semantic regression label whose size matches image.Its values range from 0 (background) to real values (pose and shape representations)."]

SHAPE_DIMS == 10
SHAPE_BINS == 32
POSE_BINS == 128

\* ['shape_%d' % dim for dim in range(SHAPE_DIMS)]
ShapeNames == [i \in 1..SHAPE_DIMS |-> "shape_" \o ToString(i - 1)]

\* pose_range, in tenths.
POSE_RANGE ==
  << <<-10, 10>>, <<-10, 10>>, <<-10, 10>>, <<-10, 10>>,
     <<0, 0>>, <<0, 0>>, <<11, 3500>>, <<0, 0>> >>

\* The disabled "xy" variant of bin_nums.
BIN_NUMS_XY == Repeat(POSE_BINS, 7) \o Repeat(SHAPE_BINS, SHAPE_DIMS)

\* bin_nums ("uv flow" variant, the active one).
BIN_NUMS ==
  Repeat(POSE_BINS, 4) \o <<1, 1, POSE_BINS, 1>> \o Repeat(SHAPE_BINS, SHAPE_DIMS)

OUTPUT_NAMES ==
  <<"q1", "q2", "q3", "q4", "x", "y", "z_log_dense", "z_log_offset">> \o ShapeNames

OUTPUT_NAMES_SUMMARY ==
  <<"q1", "q2", "q3", "q4", "x", "y", "z_object">> \o ShapeNames

APOLLOSCAPE_INFORMATION ==
  [splits_to_sizes      |-> [train |-> 4611, val |-> 480, test |-> 1041],
   num_classes          |-> 7 + 2,
   shape_dims           |-> SHAPE_DIMS,
   shape_bins           |-> SHAPE_BINS,
   height_ori           |-> 678,
   width_ori            |-> 1692,
   pose_range           |-> POSE_RANGE,
   bin_nums             |-> BIN_NUMS,
   output_names         |-> OUTPUT_NAMES,
   output_names_summary |-> OUTPUT_NAMES_SUMMARY]

DATASETS_INFORMATION == [apolloscape |-> APOLLOSCAPE_INFORMATION]

FILE_PATTERN == <<"%", "s", "-", "*">>

(***************************** get_dataset ********************************)

\* Misordered validation: the split name is checked (against the apolloscape
\* splits) before the dataset name.
ValidationSplitFirst(reg, dataset_name, split_name) ==
  IF split_name \notin {"train", "val", "test"} THEN "unrecognized"
  ELSE IF dataset_name \notin DOMAIN reg THEN "unsupported"
  ELSE "ok"

\* A split test against a stale list of split names.
SplitRecognizedTrainVal(splits_to_sizes, split_name) ==
  split_name \in {"train", "val"}

\* split_name in splits_to_sizes
SplitRecognized(splits_to_sizes, split_name) ==
  split_name \in DOMAIN splits_to_sizes

\* The two guards at the head of get_dataset, in their order.
Validation(reg, dataset_name, split_name) ==
  IF dataset_name \notin DOMAIN reg THEN "unsupported"
  ELSE IF ~SplitRecognized(reg[dataset_name].splits_to_sizes, split_name)
       THEN "unrecognized"
       ELSE "ok"

\* Locals with height_ori and width_ori crossed.
LocalsCrossed(info) ==
  [num_classes          |-> info.num_classes,
   SHAPE_DIMS           |-> info.shape_dims,
   SHAPE_BINS           |-> info.shape_bins,
   pose_range           |-> info.pose_range,
   bin_nums             |-> info.bin_nums,
   output_names         |-> info.output_names,
   output_names_summary |-> info.output_names_summary,
   height_ori           |-> info.width_ori,
   width_ori            |-> info.height_ori]

\* "Prepare the variables for different datasets": the locals read from the
\* descriptor.  SHAPE_DIMS and SHAPE_BINS are locals here, shadowing the
\* module-level names.
Locals(info) ==
  [num_classes          |-> info.num_classes,
   SHAPE_DIMS           |-> info.shape_dims,
   SHAPE_BINS           |-> info.shape_bins,
   pose_range           |-> info.pose_range,
   bin_nums             |-> info.bin_nums,
   output_names         |-> info.output_names,
   output_names_summary |-> info.output_names_summary,
   height_ori           |-> info.height_ori,
   width_ori            |-> info.width_ori]

\* file_pattern = os.path.join(dataset_dir, _FILE_PATTERN % split_name)
FilePattern(dataset_dir, split_name) ==
  PathJoin(dataset_dir, Format(FILE_PATTERN, Chars(split_name)))

\* tf.FixedLenFeature((), dtype, default_value) and tf.VarLenFeature(dtype)
FixedLenFeature(dtype, default_value) ==
  [feature |-> "FixedLenFeature", shape |-> <<>>, dtype |-> dtype,
   default_value |-> default_value]

VarLenFeature(dtype) == [feature |-> "VarLenFeature", dtype |-> dtype]

\* tfexample_decoder.Image(image_key, format_key, channels, dtype=uint8) and
\* tfexample_decoder.Tensor(tensor_key)
Image(image_key, format_key, channels, dtype) ==
  [handler |-> "Image", image_key |-> image_key, format_key |-> format_key,
   channels |-> channels, dtype |-> dtype]

Tensor(tensor_key) == [handler |-> "Tensor", tensor_key |-> tensor_key]

\* keys_to_features of the  split_name != 'test'  branch.
KeysToFeaturesFull ==
     "image/encoded"        :> FixedLenFeature("string", "")
  @@ "image/filename"       :> FixedLenFeature("string", "")
  @@ "image/format"         :> FixedLenFeature("string", "png")
  @@ "image/height"         :> FixedLenFeature("int64", 0)
  @@ "image/width"          :> FixedLenFeature("int64", 0)
  @@ "posedict/encoded"     :> VarLenFeature("float32")
  @@ "rotuvddict/encoded"   :> VarLenFeature("float32")
  @@ "bboxdict/encoded"     :> VarLenFeature("float32")
  @@ "shapeiddict/encoded"  :> VarLenFeature("float32")
  @@ "vis/encoded"          :> FixedLenFeature("string", "")
  @@ "vis/format"           :> FixedLenFeature("string", "png")
  @@ "depth/encoded"        :> FixedLenFeature("string", "")
  @@ "depth/format"         :> FixedLenFeature("string", "png")
  @@ "seg/encoded"          :> FixedLenFeature("string", "")
  @@ "seg/format"           :> FixedLenFeature("string", "png")
  @@ "shape_id_map/encoded" :> FixedLenFeature("string", "")
  @@ "shape_id_map/format"  :> FixedLenFeature("string", "png")

\* keys_to_features of the else ('test') branch.
KeysToFeaturesTest ==
     "image/encoded"  :> FixedLenFeature("string", "")
  @@ "image/filename" :> FixedLenFeature("string", "")
  @@ "image/format"   :> FixedLenFeature("string", "png")
  @@ "image/height"   :> FixedLenFeature("int64", 0)
  @@ "image/width"    :> FixedLenFeature("int64", 0)
  @@ "seg/encoded"    :> FixedLenFeature("string", "")
  @@ "seg/format"     :> FixedLenFeature("string", "png")

\* items_to_handlers of the  split_name != 'test'  branch.
ItemsToHandlersFull ==
     "image"         :> Image("image/encoded", "image/format", 3, "uint8")
  @@ "vis"           :> Image("vis/encoded", "vis/format", 3, "uint8")
  @@ "depth"         :> Image("depth/encoded", "depth/format", 1, "uint16")
  @@ "seg"           :> Image("seg/encoded", "seg/format", 1, "uint8")
  @@ "image_name"    :> Tensor("image/filename")
  @@ "height"        :> Tensor("image/height")
  @@ "width"         :> Tensor("image/width")
  @@ "pose_dict"     :> Tensor("posedict/encoded")
  @@ "rotuvd_dict"   :> Tensor("rotuvddict/encoded")
  @@ "bbox_dict"     :> Tensor("bboxdict/encoded")
  @@ "shape_id_dict" :> Tensor("shapeiddict/encoded")
  @@ "shape_id_map"  :> Image("shape_id_map/encoded", "shape_id_map/format", 1, "uint8")

\* items_to_handlers of the else ('test') branch.
ItemsToHandlersTest ==
     "image"      :> Image("image/encoded", "image/format", 3, "uint8")
  @@ "seg"        :> Image("seg/encoded", "seg/format", 1, "uint8")
  @@ "image_name" :> Tensor("image/filename")
  @@ "height"     :> Tensor("image/height")
  @@ "width"      :> Tensor("image/width")

\* A schema selection that lost its 'test' branch.
KeysToFeaturesNoBranch(split_name) == KeysToFeaturesFull

ItemsToHandlersNoBranch(split_name) == ItemsToHandlersFull

\* if split_name != 'test': ... else: ...
KeysToFeatures(split_name) ==
  IF split_name # "test" THEN KeysToFeaturesFull ELSE KeysToFeaturesTest

ItemsToHandlers(split_name) ==
  IF split_name # "test" THEN ItemsToHandlersFull ELSE ItemsToHandlersTest

\* decoder = tfexample_decoder.TFExampleDecoder(keys_to_features, items_to_handlers)
TFExampleDecoder(split_name) ==
  [keys_to_features  |-> KeysToFeatures(split_name),
   items_to_handlers |-> ItemsToHandlers(split_name)]

\* A sample count always read from the 'train' entry.
NumSamplesTrain(splits_to_sizes, split_name) == splits_to_sizes["train"]

\* num_samples=splits_to_sizes[split_name]
NumSamples(splits_to_sizes, split_name) == splits_to_sizes[split_name]

\* A depth flag hard-wired on.
IfDepthFixed(FLAGS) == TRUE

\* if_depth=FLAGS.if_depth
IfDepth(FLAGS) == FLAGS.if_depth

\* The dataset.Dataset(...) the resolver returns, as a record of its keywords.
Dataset(reg, FLAGS, dataset_name, split_name, dataset_dir) ==
  LET info == reg[dataset_name]
      loc  == Locals(info)
  IN  [data_sources          |-> FilePattern(dataset_dir, split_name),
       reader                |-> "TFRecordReader",
       decoder               |-> TFExampleDecoder(split_name),
       num_samples           |-> NumSamples(info.splits_to_sizes, split_name),
       items_to_descriptions |-> ITEMS_TO_DESCRIPTIONS,
       pose_range            |-> loc.pose_range,
       bin_nums              |-> loc.bin_nums,
       SHAPE_DIMS            |-> loc.SHAPE_DIMS,
       output_names          |-> loc.output_names,
       output_names_summary  |-> loc.output_names_summary,
       num_classes           |-> loc.num_classes,
       SHAPE_BINS            |-> loc.SHAPE_BINS,
       POSE_BINS             |-> POSE_BINS,
       name                  |-> dataset_name,
       height_ori            |-> loc.height_ori,
       width_ori             |-> loc.width_ori,
       multi_label           |-> TRUE,
       if_depth              |-> IfDepth(FLAGS)]

UnsupportedMessage == "The specified dataset is not supported yet."

\* 'data split name %s not recognized' % split_name
UnrecognizedMessage(split_name) ==
  "data split name " \o split_name \o " not recognized"

Raised(message) ==
  [kind |-> "raised", exception |-> "ValueError", message |-> message]

Returned(handle) == [kind |-> "returned", handle |-> handle]

\* The outcome of get_dataset(FLAGS, dataset_name, split_name, dataset_dir)
\* with the registry reg.
get_dataset(reg, FLAGS, dataset_name, split_name, dataset_dir) ==
  LET v == Validation(reg, dataset_name, split_name)
  IN  IF v = "unsupported" THEN Raised(UnsupportedMessage)
      ELSE IF v = "unrecognized" THEN Raised(UnrecognizedMessage(split_name))
      ELSE Returned(Dataset(reg, FLAGS, dataset_name, split_name, dataset_dir))

\* A lookup that consumes the split entry (dict.pop instead of a subscript).
RegistryAfterPop(reg, dataset_name, split_name) ==
  IF Validation(reg, dataset_name, split_name) = "ok"
  THEN [reg EXCEPT ![dataset_name].splits_to_sizes =
          [s \in DOMAIN @ \ {split_name} |-> @[s]]]
  ELSE reg

\* _DATASETS_INFORMATION after a call: get_dataset only reads it.
RegistryAfter(reg, dataset_name, split_name) == reg

(***************************** state machine ******************************)

DatasetNames == {"apolloscape", "nonexistent"}

SplitNames == {"train", "val", "test", "trainval"}

DirChars == {"d", "/"}

DatasetDirs == UNION {[1..n -> DirChars] : n \in 0..MaxDirLen}

Configs == [if_depth : BOOLEAN]

NoCall == [kind |-> "none"]

NoOutcome == [kind |-> "none"]

Init ==
  /\ datasets_information = DATASETS_INFORMATION
  /\ call = NoCall
  /\ outcome = NoOutcome
  /\ earlier = [call |-> NoCall, outcome |-> NoOutcome]

\* One call of get_dataset.  earlier is a history variable: it keeps either
\* what it held or the call just superseded, with its outcome.
GetDataset ==
  \E FLAGS \in Configs, dataset_name \in DatasetNames,
     split_name \in SplitNames, dataset_dir \in DatasetDirs :
    /\ call' = [kind |-> "get_dataset", FLAGS |-> FLAGS,
                dataset_name |-> dataset_name, split_name |-> split_name,
                dataset_dir |-> dataset_dir]
    /\ outcome' = get_dataset(datasets_information, FLAGS, dataset_name,
                              split_name, dataset_dir)
    /\ datasets_information' =
         RegistryAfter(datasets_information, dataset_name, split_name)
    /\ earlier' \in {earlier, [call |-> call, outcome |-> outcome]}

Next == GetDataset

Spec == Init /\ [][Next]_vars

(***************************** properties *********************************)

Called == call.kind = "get_dataset"

Succeeded == Called /\ outcome.kind = "returned"

\* The record keys a handler reads: an Image handler its image and format
\* keys, a Tensor handler its tensor key.
HandlerKeys(h) ==
  IF h.handler = "Image" THEN {h.image_key, h.format_key} ELSE {h.tensor_key}

\* Record keys and items of the pose, shape, depth and visualization fields.
AuxiliaryKeys ==
  {"posedict/encoded", "rotuvddict/encoded", "bboxdict/encoded",
   "shapeiddict/encoded", "vis/encoded", "vis/format", "depth/encoded",
   "depth/format", "shape_id_map/encoded", "shape_id_map/format"}

AuxiliaryItems ==
  {"vis", "depth", "pose_dict", "rotuvd_dict", "bbox_dict", "shape_id_dict",
   "shape_id_map"}

ReducedKeys ==
  {"image/encoded", "image/filename", "image/format", "image/height",
   "image/width", "seg/encoded", "seg/format"}

ReducedItems == {"image", "seg", "image_name", "height", "width"}

\* C1: for 'apolloscape' and a split among train/val/test, get_dataset
\* returns a handle (raises nothing) whose num_samples is the configured
\* literal: train 4611, val 480, test 1041; for every directory and config.
C1_NumSamples ==
  (Called /\ call.dataset_name = "apolloscape"
          /\ call.split_name \in {"train", "val", "test"}) =>
    /\ outcome.kind = "returned"
    /\ outcome.handle.num_samples =
         CASE call.split_name = "train" -> 4611
           [] call.split_name = "val"   -> 480
           [] call.split_name = "test"  -> 1041

C1_Witness ==
  /\ Called
  /\ call.dataset_name = "apolloscape"
  /\ call.split_name = "val"
  /\ call.dataset_dir = <<"/">>
  /\ call.FLAGS.if_depth
  /\ outcome.kind = "returned"
  /\ outcome.handle.num_samples = 480

\* C2: a dataset name that is not a key of the registry always gives the
\* unsupported-dataset error and no handle, whatever the split name: never
\* the unrecognized-split error.
C2_UnsupportedDataset ==
  (Called /\ call.dataset_name \notin DOMAIN datasets_information) =>
    /\ outcome.kind = "raised"
    /\ outcome.exception = "ValueError"
    /\ outcome.message = "The specified dataset is not supported yet."

C2_Witness ==
  /\ Called
  /\ call.dataset_name = "nonexistent"
  /\ call.split_name = "trainval"
  /\ outcome.kind = "raised"
  /\ outcome.message = "The specified dataset is not supported yet."

\* C3: the unrecognized-split error is raised exactly when the dataset name
\* is registered and the split name is not a key of its splits_to_sizes.
C3_UnrecognizedSplit ==
  Called =>
    ( ( /\ call.dataset_name \in DOMAIN datasets_information
        /\ call.split_name \notin
             DOMAIN datasets_information[call.dataset_name].splits_to_sizes )
      <=>
      ( /\ outcome.kind = "raised"
        /\ outcome.exception = "ValueError"
        /\ outcome.message =
             "data split name " \o call.split_name \o " not recognized" ) )

C3_Witness ==
  /\ Called
  /\ call.dataset_name = "apolloscape"
  /\ call.split_name = "trainval"
  /\ outcome.kind = "raised"
  /\ outcome.message = "data split name trainval not recognized"

\* C4 as stated: pose_range and bin_nums have the same length, 18 each, in
\* the registered descriptor and in every returned handle.
C4_Original ==
  /\ \A d \in DOMAIN datasets_information :
       /\ Len(datasets_information[d].pose_range)
            = Len(datasets_information[d].bin_nums)
       /\ Len(datasets_information[d].pose_range) = 18
       /\ Len(datasets_information[d].bin_nums) = 18
  /\ Succeeded =>
       Len(outcome.handle.pose_range) = Len(outcome.handle.bin_nums)

\* C4 (amended): in the registered descriptor pose_range has 8 entries (the
\* fixed pose channels only) and bin_nums has 18 = 8 + shape_dims, as many as
\* output_names; every returned handle carries tables of these lengths.
C4_TableLengths ==
  /\ \A d \in DOMAIN datasets_information :
       LET info == datasets_information[d]
       IN  /\ Len(info.pose_range) = 8
           /\ Len(info.bin_nums) = 18
           /\ Len(info.bin_nums) = Len(info.pose_range) + info.shape_dims
           /\ Len(info.bin_nums) = Len(info.output_names)
  /\ Succeeded =>
       /\ Len(outcome.handle.pose_range) = 8
       /\ Len(outcome.handle.bin_nums) = 18
       /\ Len(outcome.handle.bin_nums)
            = Len(outcome.handle.pose_range) + outcome.handle.SHAPE_DIMS

C4_Witness ==
  /\ Succeeded
  /\ call.split_name = "train"
  /\ Len(outcome.handle.pose_range) = 8
  /\ Len(outcome.handle.bin_nums) = 18
  /\ Len(datasets_information["apolloscape"].pose_range) = 8

\* C5 as stated: a non-'test' schema has fourteen record keys, the 'test'
\* schema exactly five, and none of the auxiliary fields.
C5_Original ==
  Succeeded =>
    LET keys == DOMAIN outcome.handle.decoder.keys_to_features
    IN  /\ call.split_name # "test" => Cardinality(keys) = 14
        /\ call.split_name = "test" =>
             /\ Cardinality(keys) = 5
             /\ keys \cap AuxiliaryKeys = {}

\* C5 (amended): the schema depends only on whether split_name is 'test'.
\* A non-'test' schema declares all seventeen record keys (twelve items); the
\* 'test' schema declares exactly the seven image/* and seg/* keys (five
\* items) and no pose, shape, depth or visualization key or item.
C5_SchemaBySplit ==
  Succeeded =>
    LET dec   == outcome.handle.decoder
        keys  == DOMAIN dec.keys_to_features
        items == DOMAIN dec.items_to_handlers
    IN  /\ call.split_name # "test" =>
             /\ keys = ReducedKeys \cup AuxiliaryKeys
             /\ Cardinality(keys) = 17
             /\ items = ReducedItems \cup AuxiliaryItems
             /\ Cardinality(items) = 12
        /\ call.split_name = "test" =>
             /\ keys = ReducedKeys
             /\ Cardinality(keys) = 7
             /\ items = ReducedItems
             /\ keys \cap AuxiliaryKeys = {}
             /\ items \cap AuxiliaryItems = {}
        /\ \A F \in Configs, s \in SplitNames, dir \in DatasetDirs :
             LET o == get_dataset(datasets_information, F,
                                  call.dataset_name, s, dir)
             IN  (o.kind = "returned"
                    /\ (s = "test") = (call.split_name = "test"))
                 => o.handle.decoder = dec

C5_Witness ==
  /\ Succeeded
  /\ call.split_name = "test"
  /\ Cardinality(DOMAIN outcome.handle.decoder.keys_to_features) = 7
  /\ Cardinality(DOMAIN outcome.handle.decoder.items_to_handlers) = 5

\* C6 as stated: the file pattern is dataset_dir + '/' + split_name + '-*'
\* for every dataset_dir, an empty one and one ending in '/' included.
C6_Original ==
  Succeeded =>
    outcome.handle.data_sources =
      call.dataset_dir \o <<"/">> \o Chars(call.split_name) \o <<"-", "*">>

\* C6 (amended): the file pattern is dataset_dir + '/' + split_name + '-*'
\* when dataset_dir is non-empty and does not end in '/'; for an empty
\* dataset_dir or one ending in '/' no separator is inserted and it is
\* dataset_dir + split_name + '-*'.  Nothing else enters it.
C6_FilePattern ==
  Succeeded =>
    LET dir  == call.dataset_dir
        tail == Chars(call.split_name) \o <<"-", "*">>
    IN  outcome.handle.data_sources =
          IF dir = <<>> \/ dir[Len(dir)] = "/"
          THEN dir \o tail
          ELSE dir \o <<"/">> \o tail

C6_Witness ==
  /\ Succeeded
  /\ call.split_name = "test"
  /\ call.dataset_dir = <<"/">>
  /\ outcome.handle.data_sources = <<"/", "t", "e", "s", "t", "-", "*">>

\* C7: the handle's if_depth is the configuration's if_depth, for both values
\* and every split, and flipping the flag changes no other field.
C7_IfDepth ==
  Succeeded =>
    /\ outcome.handle.if_depth = call.FLAGS.if_depth
    /\ LET o == get_dataset(datasets_information,
                            [if_depth |-> ~call.FLAGS.if_depth],
                            call.dataset_name, call.split_name,
                            call.dataset_dir)
       IN  /\ o.kind = "returned"
           /\ o.handle.if_depth = ~call.FLAGS.if_depth
           /\ [o.handle EXCEPT !.if_depth = call.FLAGS.if_depth]
                = outcome.handle

C7_Witness ==
  /\ Succeeded
  /\ call.split_name = "test"
  /\ ~call.FLAGS.if_depth
  /\ ~outcome.handle.if_depth

\* C8: after any sequence of calls the registry is what it was at start: one
\* entry 'apolloscape' with every descriptor field at its literal value; and
\* a call repeating the arguments of an earlier call has the same outcome.
C8_RegistryUnchanged ==
  /\ datasets_information = DATASETS_INFORMATION
  /\ DOMAIN datasets_information = {"apolloscape"}
  /\ datasets_information["apolloscape"].splits_to_sizes
       = [train |-> 4611, val |-> 480, test |-> 1041]
  /\ (Called /\ earlier.call = call) => earlier.outcome = outcome

C8_Witness ==
  /\ Called
  /\ earlier.call = call
  /\ call.split_name = "train"
  /\ earlier.outcome.kind = "returned"
  /\ outcome.kind = "returned"
  /\ datasets_information = DATASETS_INFORMATION

\* C9: a returned handle carries the fields of the descriptor registered
\* under dataset_name, the pose-bin count 128, name = dataset_name and
\* multi_label true, whatever the split, directory and config.
C9_HandleCarriesDescriptor ==
  Succeeded =>
    LET info == datasets_information[call.dataset_name]
        h    == outcome.handle
    IN  /\ h.pose_range = info.pose_range
        /\ h.bin_nums = info.bin_nums
        /\ h.SHAPE_DIMS = info.shape_dims /\ h.SHAPE_DIMS = 10
        /\ h.SHAPE_BINS = info.shape_bins /\ h.SHAPE_BINS = 32
        /\ h.POSE_BINS = 128
        /\ h.output_names = info.output_names
        /\ h.output_names_summary = info.output_names_summary
        /\ h.num_classes = info.num_classes /\ h.num_classes = 9
        /\ h.height_ori = info.height_ori /\ h.height_ori = 678
        /\ h.width_ori = info.width_ori /\ h.width_ori = 1692
        /\ h.name = call.dataset_name
        /\ h.multi_label = TRUE

C9_Witness ==
  /\ Succeeded
  /\ call.split_name = "train"
  /\ call.dataset_dir = <<"d">>
  /\ outcome.handle.name = "apolloscape"
  /\ outcome.handle.height_ori = 678
  /\ outcome.handle.width_ori = 1692
  /\ outcome.handle.multi_label

\* C10: in either schema variant every item handler reads only record keys
\* that the same variant's keys_to_features declares.
C10_HandlersReadDeclaredKeys ==
  Succeeded =>
    LET dec == outcome.handle.decoder
    IN  \A item \in DOMAIN dec.items_to_handlers :
          HandlerKeys(dec.items_to_handlers[item])
            \subseteq DOMAIN dec.keys_to_features

C10_Witness ==
  /\ Succeeded
  /\ call.split_name = "test"
  /\ "seg" \in DOMAIN outcome.handle.decoder.items_to_handlers
  /\ HandlerKeys(outcome.handle.decoder.items_to_handlers["seg"])
       = {"seg/encoded", "seg/format"}
  /\ "seg/format" \in DOMAIN outcome.handle.decoder.keys_to_features

====
